---- MODULE Spec2Model ----
(***************************************************************************)
(* Model of the user service of the paperbook API (UserService): the      *)
(* ownership check, the active/inactive lifecycle guard and the           *)
(* create/get/update/delete/disable/enable operations over the user       *)
(* table.  Every service method awaits one repository read (the guard     *)
(* read) and, for the mutating methods, one repository write afterwards;  *)
(* the two are separate steps, so requests interleave between them.       *)
(* Spec interleaves the requests; SpecSeq serves them one at a time over  *)
(* more users and payloads; SpecPerm is the ownership check alone;        *)
(* SpecCart is the routes of the shopping cart controller.                *)
(***************************************************************************)
EXTENDS Integers, FiniteSets, Sequences, Bags, TLC

(* ------------------------------ bounds -------------------------------- *)

\* how many ids the table's id generator hands out
MaxUsers == 1
\* how many mutating requests may sit between their guard read and their write
MaxInFlight == 2
\* how many ids the generator hands out when the requests are served one
\* at a time
MaxSeqUsers == 2
\* how many ids the shopping cart table's generator hands out
MaxCarts == 1

(* ------------------------------ values -------------------------------- *)

UserIds == 1..MaxUsers
SeqUserIds == 1..MaxSeqUsers
CartIds == 1..MaxCarts

\* RolesEnum (imported at the top of the service)
RoleAdmin == "admin"
RoleSeller == "seller"
RoleUser == "user"
RolesEnum == {RoleAdmin, RoleSeller, RoleUser}

\* RequestUser: the authenticated caller, {id, roles}.  The callers of the
\* service steps: the first user and another user, each in every role
CallerIds == {1, 2}
RequestUsers == [id : CallerIds, roles : RolesEnum]

\* the inputs of the ownership check taken alone: every role, owner ids
\* 0..MaxPermId (0: a resource without owner), caller ids 1..MaxPermId
MaxPermId == 5
PermOwnerIds == 0..MaxPermId
PermRequestUsers == [id : 1..MaxPermId, roles : RolesEnum]

\* placeholder caller of the steps that take no requestUser
NoRequestUser == [id |-> 0, roles |-> "none"]

\* CreateUserPayload: roles may be left undefined
NoRoles == "undefined"
CreatePayloads == [name : {"n1"}, password : {"pw"}, roles : {NoRoles}]
\* the same with roles given or left undefined
SeqCreatePayloads == [name : {"n1"}, password : {"pw"}, roles : {NoRoles, RoleSeller}]

\* UpdateUserPaylaod: a partial set of fields
UpdatePayloads == {[name |-> "n2"]}
NoPayload == [none |-> TRUE]

\* query options of get: none, a search the row matches, a search the row
\* does not match, a lookup that rejects because the persistence layer failed
CrudRequests == {"none", "match", "nomatch", "reject"}

Ok == "ok"
NotFound == "NotFound"
Forbidden == "Forbidden"
AlreadyDisabled == "AlreadyDisabled"
AlreadyEnabled == "AlreadyEnabled"

(* ------------------------------- state -------------------------------- *)

VARIABLES
  users,      \* the user table: id -> row, for the ids that have a row
  nextId,     \* the next id the table generates
  inflight,   \* bag of writes whose guard has passed and that are still awaited
  lifecycle,  \* history: the last lifecycle write that took effect on each id
  last,       \* history: the step just taken and what it answered, until
              \* the answer has been handed to the caller
  perm,       \* one evaluation of the ownership check: its inputs and its answer
  createdWith,   \* history: the payload each id was created with
  patched,       \* history: the ids whose row an update write has changed
  carts,         \* the shopping cart table: id -> row
  nextCartId,    \* the next id the shopping cart table generates
  cartLifecycle  \* history: the last lifecycle write that took effect on each cart

cartVars == <<carts, nextCartId, cartLifecycle>>
userVars == <<users, nextId, lifecycle, perm, createdWith, patched>>

vars == <<users, nextId, inflight, lifecycle, last, perm, createdWith, patched,
          cartVars>>

(* --------------------------- pure functions --------------------------- *)

\* src/utils/validations isAdminUser
isAdminUser(requestUser) == requestUser.roles = RoleAdmin

\* variant: owner and admin both required
hasPermissions_Both(entityId, requestUser) ==
  entityId = requestUser.id /\ isAdminUser(requestUser)

hasPermissions(entityId, requestUser) ==
  entityId = requestUser.id \/ isAdminUser(requestUser)

\* src/utils/password encryptPassword: one-way, never the plain value
encryptPassword(password) == "hash(" \o password \o ")"

\* isActive column default of the entity
DefaultIsActive == TRUE

\* variant: the entity saved with the password as submitted
NewUserEntity_Plain(id, payload) ==
  [id |-> id,
   isActive |-> DefaultIsActive,
   name |-> payload.name,
   password |-> payload.password,
   roles |-> IF payload.roles = NoRoles THEN RoleUser ELSE payload.roles]

\* variant: the entity saved with its roles as submitted
NewUserEntity_NoDefault(id, payload) ==
  [id |-> id,
   isActive |-> DefaultIsActive,
   name |-> payload.name,
   password |-> encryptPassword(payload.password),
   roles |-> payload.roles]

\* new UserEntity(payload), password hashed, roles defaulted
NewUserEntity(id, payload) ==
  [id |-> id,
   isActive |-> DefaultIsActive,
   name |-> payload.name,
   password |-> encryptPassword(payload.password),
   roles |-> IF payload.roles = NoRoles THEN RoleUser ELSE payload.roles]

\* UserEntity.findOne({ id }): the row as a one-element sequence, or <<>>
FindOne(table, userId) ==
  IF userId \in DOMAIN table THEN <<table[userId]>> ELSE <<>>

\* super.getOne(crudRequest).catch(() => undefined)
GetOne(table, userId, crudRequest) ==
  IF crudRequest = "match" THEN FindOne(table, userId) ELSE <<>>

\* the lookup of get: with or without query options
GetLookup(table, userId, crudRequest) ==
  IF crudRequest # "none"
    THEN GetOne(table, userId, crudRequest)
    ELSE FindOne(table, userId)

\* variant: get without the isActive test
GetGuard_NoActive(entity, requestUser) ==
  IF entity = <<>> THEN NotFound
  ELSE IF ~hasPermissions(entity[1].id, requestUser) THEN Forbidden
  ELSE Ok

\* variant: get testing the permission before the state
GetGuard_PermFirst(entity, requestUser) ==
  IF entity = <<>> THEN NotFound
  ELSE IF ~hasPermissions(entity[1].id, requestUser) THEN Forbidden
  ELSE IF ~entity[1].isActive THEN NotFound
  ELSE Ok

\* the guard of get: existence and isActive, then the permission
GetGuard(entity, requestUser) ==
  IF entity = <<>> \/ ~entity[1].isActive THEN NotFound
  ELSE IF ~hasPermissions(entity[1].id, requestUser) THEN Forbidden
  ELSE Ok

GetAddressesGuard(entity, requestUser) ==
  IF entity = <<>> \/ ~entity[1].isActive THEN NotFound
  ELSE IF ~hasPermissions(entity[1].id, requestUser) THEN Forbidden
  ELSE Ok

\* getProductsByUserId takes no requestUser and checks no permission
GetProductsGuard(entity) ==
  IF entity = <<>> \/ ~entity[1].isActive THEN NotFound ELSE Ok

GetOrdersGuard(entity, requestUser) ==
  IF entity = <<>> \/ ~entity[1].isActive THEN NotFound
  ELSE IF ~hasPermissions(entity[1].id, requestUser) THEN Forbidden
  ELSE Ok

\* variant: update without the isActive test
UpdateGuard_NoActive(entity, requestUser) ==
  IF entity = <<>> THEN NotFound
  ELSE IF ~hasPermissions(entity[1].id, requestUser) THEN Forbidden
  ELSE Ok

UpdateGuard(entity, requestUser) ==
  IF entity = <<>> \/ ~entity[1].isActive THEN NotFound
  ELSE IF ~hasPermissions(entity[1].id, requestUser) THEN Forbidden
  ELSE Ok

\* variant: delete accepting inactive records
DeleteGuard_AnyState(entity, requestUser) ==
  IF entity = <<>> THEN NotFound
  ELSE IF ~hasPermissions(entity[1].id, requestUser) THEN Forbidden
  ELSE Ok

DeleteGuard(entity, requestUser) ==
  IF entity = <<>> \/ ~entity[1].isActive THEN NotFound
  ELSE IF ~hasPermissions(entity[1].id, requestUser) THEN Forbidden
  ELSE Ok

\* variant: disable of an inactive record as a silent no-op
DisableGuard_Silent(entity, requestUser) ==
  IF entity = <<>> THEN NotFound
  ELSE IF ~hasPermissions(entity[1].id, requestUser) THEN Forbidden
  ELSE Ok

\* variant: disable testing the permission before the state
DisableGuard_PermFirst(entity, requestUser) ==
  IF entity = <<>> THEN NotFound
  ELSE IF ~hasPermissions(entity[1].id, requestUser) THEN Forbidden
  ELSE IF ~entity[1].isActive THEN AlreadyDisabled
  ELSE Ok

DisableGuard(entity, requestUser) ==
  IF entity = <<>> THEN NotFound
  ELSE IF ~entity[1].isActive THEN AlreadyDisabled
  ELSE IF ~hasPermissions(entity[1].id, requestUser) THEN Forbidden
  ELSE Ok

\* variant: enable of an active record as a silent no-op
EnableGuard_Silent(entity, requestUser) ==
  IF entity = <<>> THEN NotFound
  ELSE IF ~hasPermissions(entity[1].id, requestUser) THEN Forbidden
  ELSE Ok

\* variant: enable with the guard of the reads, blind to inactive records
EnableGuard_ActiveOnly(entity, requestUser) ==
  IF entity = <<>> \/ ~entity[1].isActive THEN NotFound
  ELSE IF entity[1].isActive THEN AlreadyEnabled
  ELSE Ok

EnableGuard(entity, requestUser) ==
  IF entity = <<>> THEN NotFound
  ELSE IF entity[1].isActive THEN AlreadyEnabled
  ELSE IF ~hasPermissions(entity[1].id, requestUser) THEN Forbidden
  ELSE Ok

\* variant: a save of the fields, which inserts the row when none matches
UpdateRow_Upsert(table, userId, fields) ==
  LET old == IF userId \in DOMAIN table
               THEN table[userId]
               ELSE [id |-> userId, isActive |-> DefaultIsActive, name |-> "",
                     password |-> encryptPassword(""), roles |-> RoleUser]
  IN [i \in DOMAIN table \cup {userId} |->
        IF i = userId
          THEN [f \in DOMAIN old |-> IF f \in DOMAIN fields THEN fields[f] ELSE old[f]]
          ELSE table[i]]

\* variant: an update whose criteria match every row
UpdateRow_AllRows(table, userId, fields) ==
  [i \in DOMAIN table |->
     [f \in DOMAIN table[i] |->
        IF f \in DOMAIN fields THEN fields[f] ELSE table[i][f]]]

\* UserEntity.update({ id }, fields): sets the given columns of the rows
\* that match; no row, no effect
UpdateRow(table, userId, fields) ==
  IF userId \in DOMAIN table
    THEN [table EXCEPT ![userId] =
            [f \in DOMAIN table[userId] |->
               IF f \in DOMAIN fields THEN fields[f] ELSE table[userId][f]]]
    ELSE table

\* UserEntity.delete({ id }): removes the rows that match
DeleteRow(table, userId) ==
  [i \in DOMAIN table \ {userId} |-> table[i]]

\* entity.save() of a new entity: a row under a generated id
InsertRow(table, entity) ==
  [i \in DOMAIN table \cup {entity.id} |->
     IF i = entity.id THEN entity ELSE table[i]]

(* ------------------------------ helpers ------------------------------- *)

Step(op, phase, userId, requestUser, crudRequest, result, entity) ==
  [op |-> op, phase |-> phase, userId |-> userId, requestUser |-> requestUser,
   crudRequest |-> crudRequest, result |-> result, entity |-> entity]

Write(op, userId, payload) == [op |-> op, userId |-> userId, payload |-> payload]

\* variant: the write awaited unless the row was not found
Await_UnlessNotFound(result, write) ==
  IF result = NotFound THEN inflight ELSE inflight (+) SetToBag({write})

\* variant: the write awaited whatever the guard answered
Await_Always(result, write) == inflight (+) SetToBag({write})

\* a request whose guard passed waits for its write
Await(result, write) ==
  IF result = Ok THEN inflight (+) SetToBag({write}) ELSE inflight

CanAwait == BagCardinality(inflight) < MaxInFlight

\* no answer is on its way to a caller
NoStep == Step("none", "none", 0, NoRequestUser, "none", Ok, <<>>)

\* the answer of the step before has been handed over.  last only records
\* history: no guard and no write of the service reads it, so taking the
\* steps one answer at a time leaves out no state of the table and no
\* interleaving of reads and writes
Delivered == last = NoStep

\* an evaluation of hasPermissions: pending until it has answered
Perm(entityId, requestUser, answered, result) ==
  [entityId |-> entityId, requestUser |-> requestUser,
   answered |-> answered, result |-> result]

NoPerm == Perm(0, NoRequestUser, FALSE, FALSE)

(* ------------------------------- Init --------------------------------- *)

\* no cart: the state of the shopping cart table before any request
NoCarts ==
  /\ carts = <<>>
  /\ nextCartId = 1
  /\ cartLifecycle = <<>>

\* the user table over the ids the generator may hand out
InitOver(ids) ==
  /\ users = <<>>
  /\ nextId = 1
  /\ inflight = EmptyBag
  /\ lifecycle = [i \in ids |-> "none"]
  /\ last = NoStep
  /\ perm = NoPerm
  /\ createdWith = [i \in ids |-> NoPayload]
  /\ patched = {}

Init == InitOver(UserIds) /\ NoCarts

(* ------------------------------ actions ------------------------------- *)

Create(createUserPayload) ==
  /\ Delivered
  /\ nextId \in DOMAIN lifecycle
  /\ LET entity == NewUserEntity(nextId, createUserPayload) IN
       /\ users' = InsertRow(users, entity)
       /\ last' = Step("create", "done", nextId, NoRequestUser, "none", Ok, <<entity>>)
  /\ nextId' = nextId + 1
  /\ lifecycle' = [lifecycle EXCEPT ![nextId] = "created"]
  /\ createdWith' = [createdWith EXCEPT ![nextId] = createUserPayload]
  /\ UNCHANGED <<inflight, perm, patched, cartVars>>

Get(userId, requestUser, crudRequest) ==
  /\ Delivered
  /\ LET entity == GetLookup(users, userId, crudRequest)
         result == GetGuard(entity, requestUser) IN
       last' = Step("get", "done", userId, requestUser, crudRequest, result,
                    IF result = Ok THEN entity ELSE <<>>)
  /\ UNCHANGED <<users, nextId, inflight, lifecycle, perm, createdWith, patched, cartVars>>

GetAddressesByUserId(userId, requestUser) ==
  /\ Delivered
  /\ LET result == GetAddressesGuard(FindOne(users, userId), requestUser) IN
       last' = Step("getAddressesByUserId", "done", userId, requestUser, "none", result, <<>>)
  /\ UNCHANGED <<users, nextId, inflight, lifecycle, perm, createdWith, patched, cartVars>>

GetProductsByUserId(userId) ==
  /\ Delivered
  /\ LET result == GetProductsGuard(FindOne(users, userId)) IN
       last' = Step("getProductsByUserId", "done", userId, NoRequestUser, "none", result, <<>>)
  /\ UNCHANGED <<users, nextId, inflight, lifecycle, perm, createdWith, patched, cartVars>>

GetOrdersByUserId(userId, requestUser) ==
  /\ Delivered
  /\ LET result == GetOrdersGuard(FindOne(users, userId), requestUser) IN
       last' = Step("getOrdersByUserId", "done", userId, requestUser, "none", result, <<>>)
  /\ UNCHANGED <<users, nextId, inflight, lifecycle, perm, createdWith, patched, cartVars>>

\* update, up to the await of its write
Update(userId, requestUser, updatedUserPayload) ==
  /\ Delivered
  /\ CanAwait
  /\ LET result == UpdateGuard(FindOne(users, userId), requestUser) IN
       /\ last' = Step("update", "guard", userId, requestUser, "none", result, <<>>)
       /\ inflight' = Await(result, Write("update", userId, updatedUserPayload))
  /\ UNCHANGED <<users, nextId, lifecycle, perm, createdWith, patched, cartVars>>

UpdateWrite(w) ==
  /\ Delivered
  /\ BagIn(w, inflight) /\ w.op = "update"
  /\ users' = UpdateRow(users, w.userId, w.payload)
  /\ inflight' = inflight (-) SetToBag({w})
  /\ last' = Step("update", "write", w.userId, NoRequestUser, "none", Ok, <<>>)
  /\ patched' = IF w.userId \in DOMAIN users THEN patched \cup {w.userId} ELSE patched
  /\ UNCHANGED <<nextId, lifecycle, perm, createdWith, cartVars>>

\* delete, up to the await of its write
Delete(userId, requestUser) ==
  /\ Delivered
  /\ CanAwait
  /\ LET result == DeleteGuard(FindOne(users, userId), requestUser) IN
       /\ last' = Step("delete", "guard", userId, requestUser, "none", result, <<>>)
       /\ inflight' = Await(result, Write("delete", userId, NoPayload))
  /\ UNCHANGED <<users, nextId, lifecycle, perm, createdWith, patched, cartVars>>

DeleteWrite(w) ==
  /\ Delivered
  /\ BagIn(w, inflight) /\ w.op = "delete"
  /\ users' = DeleteRow(users, w.userId)
  /\ inflight' = inflight (-) SetToBag({w})
  /\ lifecycle' = IF w.userId \in DOMAIN users
                    THEN [lifecycle EXCEPT ![w.userId] = "deleted"]
                    ELSE lifecycle
  /\ last' = Step("delete", "write", w.userId, NoRequestUser, "none", Ok, <<>>)
  /\ UNCHANGED <<nextId, perm, createdWith, patched, cartVars>>

\* disable, up to the await of its write
Disable(userId, requestUser) ==
  /\ Delivered
  /\ CanAwait
  /\ LET result == DisableGuard(FindOne(users, userId), requestUser) IN
       /\ last' = Step("disable", "guard", userId, requestUser, "none", result, <<>>)
       /\ inflight' = Await(result, Write("disable", userId, NoPayload))
  /\ UNCHANGED <<users, nextId, lifecycle, perm, createdWith, patched, cartVars>>

DisableWrite(w) ==
  /\ Delivered
  /\ BagIn(w, inflight) /\ w.op = "disable"
  /\ users' = UpdateRow(users, w.userId, [isActive |-> FALSE])
  /\ inflight' = inflight (-) SetToBag({w})
  /\ lifecycle' = IF w.userId \in DOMAIN users
                    THEN [lifecycle EXCEPT ![w.userId] = "disabled"]
                    ELSE lifecycle
  /\ last' = Step("disable", "write", w.userId, NoRequestUser, "none", Ok, <<>>)
  /\ UNCHANGED <<nextId, perm, createdWith, patched, cartVars>>

\* enable, up to the await of its write
Enable(userId, requestUser) ==
  /\ Delivered
  /\ CanAwait
  /\ LET result == EnableGuard(FindOne(users, userId), requestUser) IN
       /\ last' = Step("enable", "guard", userId, requestUser, "none", result, <<>>)
       /\ inflight' = Await(result, Write("enable", userId, NoPayload))
  /\ UNCHANGED <<users, nextId, lifecycle, perm, createdWith, patched, cartVars>>

EnableWrite(w) ==
  /\ Delivered
  /\ BagIn(w, inflight) /\ w.op = "enable"
  /\ users' = UpdateRow(users, w.userId, [isActive |-> TRUE])
  /\ inflight' = inflight (-) SetToBag({w})
  /\ lifecycle' = IF w.userId \in DOMAIN users
                    THEN [lifecycle EXCEPT ![w.userId] = "enabled"]
                    ELSE lifecycle
  /\ last' = Step("enable", "write", w.userId, NoRequestUser, "none", Ok, <<>>)
  /\ UNCHANGED <<nextId, perm, createdWith, patched, cartVars>>

\* the answer of the step just taken reaches its caller (return or throw)
Respond ==
  /\ ~Delivered
  /\ last' = NoStep
  /\ UNCHANGED <<users, nextId, inflight, lifecycle, perm, createdWith, patched, cartVars>>

Writes == BagToSet(inflight)

Next ==
  \/ \E p \in CreatePayloads : Create(p)
  \/ \E i \in UserIds, u \in RequestUsers, c \in CrudRequests : Get(i, u, c)
  \/ \E i \in UserIds, u \in RequestUsers : GetAddressesByUserId(i, u)
  \/ \E i \in UserIds : GetProductsByUserId(i)
  \/ \E i \in UserIds, u \in RequestUsers : GetOrdersByUserId(i, u)
  \/ \E i \in UserIds, u \in RequestUsers, p \in UpdatePayloads : Update(i, u, p)
  \/ \E w \in Writes : UpdateWrite(w)
  \/ \E i \in UserIds, u \in RequestUsers : Delete(i, u)
  \/ \E w \in Writes : DeleteWrite(w)
  \/ \E i \in UserIds, u \in RequestUsers : Disable(i, u)
  \/ \E w \in Writes : DisableWrite(w)
  \/ \E i \in UserIds, u \in RequestUsers : Enable(i, u)
  \/ \E w \in Writes : EnableWrite(w)
  \/ Respond

Spec == Init /\ [][Next]_vars

(* ------------------ the requests served one at a time ----------------- *)

\* no request is between its guard read and its write
Serial == inflight = EmptyBag

SeqInit == InitOver(SeqUserIds) /\ NoCarts

SeqNext ==
  \/ \E p \in SeqCreatePayloads : Serial /\ Create(p)
  \/ \E i \in SeqUserIds, u \in RequestUsers, c \in CrudRequests :
       Serial /\ Get(i, u, c)
  \/ \E i \in SeqUserIds, u \in RequestUsers : Serial /\ GetAddressesByUserId(i, u)
  \/ \E i \in SeqUserIds : Serial /\ GetProductsByUserId(i)
  \/ \E i \in SeqUserIds, u \in RequestUsers : Serial /\ GetOrdersByUserId(i, u)
  \/ \E i \in SeqUserIds, u \in RequestUsers, p \in UpdatePayloads :
       Serial /\ Update(i, u, p)
  \/ \E w \in Writes : UpdateWrite(w)
  \/ \E i \in SeqUserIds, u \in RequestUsers : Serial /\ Delete(i, u)
  \/ \E w \in Writes : DeleteWrite(w)
  \/ \E i \in SeqUserIds, u \in RequestUsers : Serial /\ Disable(i, u)
  \/ \E w \in Writes : DisableWrite(w)
  \/ \E i \in SeqUserIds, u \in RequestUsers : Serial /\ Enable(i, u)
  \/ \E w \in Writes : EnableWrite(w)
  \/ Respond

SpecSeq == SeqInit /\ [][SeqNext]_vars

(* ------------------- the ownership check taken alone ------------------ *)

PermInit ==
  /\ users = <<>>
  /\ nextId = 1
  /\ inflight = EmptyBag
  /\ lifecycle = [i \in UserIds |-> "none"]
  /\ last = NoStep
  /\ perm \in {Perm(i, u, FALSE, FALSE) : i \in PermOwnerIds, u \in PermRequestUsers}
  /\ createdWith = [i \in UserIds |-> NoPayload]
  /\ patched = {}
  /\ NoCarts

HasPermissions ==
  /\ ~perm.answered
  /\ perm' = [perm EXCEPT !.answered = TRUE,
                          !.result = hasPermissions(perm.entityId, perm.requestUser)]
  /\ UNCHANGED <<users, nextId, inflight, lifecycle, last, createdWith, patched, cartVars>>

PermNext == HasPermissions

SpecPerm == PermInit /\ [][PermNext]_vars

(* ----------------------- the shopping cart routes --------------------- *)

\* @ProtectTo(...) of the routes of ShoppingCartController
\* variant: disable open to every role but Admin
CartDisableRoles_NotAdmin == {RoleUser, RoleSeller}

CartCreateRoles == {RoleUser, RoleSeller, RoleAdmin}
CartGetRoles == {RoleUser, RoleSeller, RoleAdmin}
CartDisableRoles == {RoleAdmin}
CartEnableRoles == {RoleAdmin}

\* a route answers Forbidden to a caller whose role it is not open to,
\* and with the answer of its handler otherwise
ProtectTo(roles, requestUser, result) ==
  IF requestUser.roles \in roles THEN result ELSE Forbidden

\* shoppingCartService.create(requestUser, payload): the cart of the caller
NewShoppingCart(id, requestUser) ==
  [id |-> id, isActive |-> DefaultIsActive, userId |-> requestUser.id]

\* shoppingCartService.get(shoppingCartId, requestUser, crudRequest)
CartGetGuard(entity, requestUser) ==
  IF entity = <<>> \/ ~entity[1].isActive THEN NotFound
  ELSE IF ~hasPermissions(entity[1].userId, requestUser) THEN Forbidden
  ELSE Ok

\* shoppingCartService.disable(shoppingCartId): no caller is handed over
CartDisableGuard(entity) ==
  IF entity = <<>> THEN NotFound
  ELSE IF ~entity[1].isActive THEN AlreadyDisabled
  ELSE Ok

\* shoppingCartService.enable(shoppingCartId): no caller is handed over
CartEnableGuard(entity) ==
  IF entity = <<>> THEN NotFound
  ELSE IF entity[1].isActive THEN AlreadyEnabled
  ELSE Ok

CartInit ==
  /\ InitOver(UserIds)
  /\ carts = <<>>
  /\ nextCartId = 1
  /\ cartLifecycle = [c \in CartIds |-> "none"]

CartCreate(requestUser) ==
  /\ Delivered
  /\ nextCartId \in DOMAIN cartLifecycle
  /\ LET entity == NewShoppingCart(nextCartId, requestUser)
         result == ProtectTo(CartCreateRoles, requestUser, Ok) IN
       /\ carts' = IF result = Ok THEN InsertRow(carts, entity) ELSE carts
       /\ nextCartId' = IF result = Ok THEN nextCartId + 1 ELSE nextCartId
       /\ cartLifecycle' = IF result = Ok
                             THEN [cartLifecycle EXCEPT ![nextCartId] = "created"]
                             ELSE cartLifecycle
       /\ last' = Step("cart.create", "done", nextCartId, requestUser, "none", result,
                       IF result = Ok THEN <<entity>> ELSE <<>>)
  /\ UNCHANGED <<inflight, userVars>>

CartGet(shoppingCartId, requestUser) ==
  /\ Delivered
  /\ LET entity == FindOne(carts, shoppingCartId)
         result == ProtectTo(CartGetRoles, requestUser,
                             CartGetGuard(entity, requestUser)) IN
       last' = Step("cart.get", "done", shoppingCartId, requestUser, "none", result,
                    IF result = Ok THEN entity ELSE <<>>)
  /\ UNCHANGED <<inflight, userVars, cartVars>>

\* disable, up to the await of its write
CartDisable(shoppingCartId, requestUser) ==
  /\ Delivered
  /\ CanAwait
  /\ LET result == ProtectTo(CartDisableRoles, requestUser,
                             CartDisableGuard(FindOne(carts, shoppingCartId))) IN
       /\ last' = Step("cart.disable", "guard", shoppingCartId, requestUser, "none",
                       result, <<>>)
       /\ inflight' = Await(result, Write("cart.disable", shoppingCartId, NoPayload))
  /\ UNCHANGED <<userVars, cartVars>>

CartDisableWrite(w) ==
  /\ Delivered
  /\ BagIn(w, inflight) /\ w.op = "cart.disable"
  /\ carts' = UpdateRow(carts, w.userId, [isActive |-> FALSE])
  /\ inflight' = inflight (-) SetToBag({w})
  /\ cartLifecycle' = IF w.userId \in DOMAIN carts
                        THEN [cartLifecycle EXCEPT ![w.userId] = "disabled"]
                        ELSE cartLifecycle
  /\ last' = Step("cart.disable", "write", w.userId, NoRequestUser, "none", Ok, <<>>)
  /\ UNCHANGED <<nextCartId, userVars>>

\* enable, up to the await of its write
CartEnable(shoppingCartId, requestUser) ==
  /\ Delivered
  /\ CanAwait
  /\ LET result == ProtectTo(CartEnableRoles, requestUser,
                             CartEnableGuard(FindOne(carts, shoppingCartId))) IN
       /\ last' = Step("cart.enable", "guard", shoppingCartId, requestUser, "none",
                       result, <<>>)
       /\ inflight' = Await(result, Write("cart.enable", shoppingCartId, NoPayload))
  /\ UNCHANGED <<userVars, cartVars>>

CartEnableWrite(w) ==
  /\ Delivered
  /\ BagIn(w, inflight) /\ w.op = "cart.enable"
  /\ carts' = UpdateRow(carts, w.userId, [isActive |-> TRUE])
  /\ inflight' = inflight (-) SetToBag({w})
  /\ cartLifecycle' = IF w.userId \in DOMAIN carts
                        THEN [cartLifecycle EXCEPT ![w.userId] = "enabled"]
                        ELSE cartLifecycle
  /\ last' = Step("cart.enable", "write", w.userId, NoRequestUser, "none", Ok, <<>>)
  /\ UNCHANGED <<nextCartId, userVars>>

CartNext ==
  \/ \E u \in RequestUsers : CartCreate(u)
  \/ \E c \in CartIds, u \in RequestUsers : CartGet(c, u)
  \/ \E c \in CartIds, u \in RequestUsers : CartDisable(c, u)
  \/ \E w \in Writes : CartDisableWrite(w)
  \/ \E c \in CartIds, u \in RequestUsers : CartEnable(c, u)
  \/ \E w \in Writes : CartEnableWrite(w)
  \/ Respond

SpecCart == CartInit /\ [][CartNext]_vars

(* ============================== claims ================================ *)

\* the step just taken answered the guard of op
Answered(op) == last.op = op /\ last.phase \in {"done", "guard"}

Exists(i) == i \in DOMAIN users
Active(i) == Exists(i) /\ users[i].isActive
Inactive(i) == Exists(i) /\ ~users[i].isActive

\* a get whose lookup is the plain one, or a search the row matches
PlainGet == Answered("get") /\ last.crudRequest \in {"none", "match"}

OwnerOrAdmin(i, u) == u.id = users[i].id \/ u.roles = RoleAdmin

\* C1: get(R.id, U) returns the record if and only if R exists, R is active
\* and U is R itself or an Admin; in every other case it fails.
C1_GetIff ==
  PlainGet =>
    LET i == last.userId
        u == last.requestUser
    IN /\ (last.result = Ok) <=> (Active(i) /\ OwnerOrAdmin(i, u))
       /\ last.result = Ok => last.entity = <<users[i]>>
       /\ last.result # Ok => /\ last.result \in {NotFound, Forbidden}
                              /\ last.entity = <<>>

\* a non-owner Admin got an active record
C1_Witness ==
  /\ PlainGet /\ last.result = Ok /\ last.entity = <<users[last.userId]>>
  /\ last.requestUser.id # last.userId /\ last.requestUser.roles = RoleAdmin

\* C2: the error of get is decided by state first and ownership second:
\* absent or inactive gives NotFound to every caller, active to a caller
\* neither owner nor Admin gives Forbidden; for user 1, caller {1, User}
\* gets the user, {2, User} Forbidden, {2, Admin} the user.
C2_GetErrorOrder ==
  PlainGet =>
    LET i == last.userId
        u == last.requestUser
    IN /\ ~Active(i) => last.result = NotFound
       /\ (Active(i) /\ ~OwnerOrAdmin(i, u)) => last.result = Forbidden
       /\ (Active(i) /\ i = 1 /\ u = [id |-> 1, roles |-> RoleUser]) => last.result = Ok
       /\ (Active(i) /\ i = 1 /\ u = [id |-> 2, roles |-> RoleUser]) => last.result = Forbidden
       /\ (Active(i) /\ i = 1 /\ u = [id |-> 2, roles |-> RoleAdmin]) => last.result = Ok

\* a caller neither owner nor Admin asked for an inactive record: NotFound
C2_Witness ==
  /\ PlainGet /\ Inactive(last.userId) /\ last.result = NotFound
  /\ last.requestUser = [id |-> 2, roles |-> RoleUser] /\ last.userId = 1

\* C3: hasPermissions(resourceOwnerId, caller) is true if and only if the
\* owner id equals caller.id or the caller has the Admin role, for every
\* owner id and identity, and it changes no state.
C3_HasPermissionsIff ==
  /\ perm.answered =>
       /\ perm.result \in BOOLEAN
       /\ perm.result <=> (perm.entityId = perm.requestUser.id
                            \/ perm.requestUser.roles = RoleAdmin)
       /\ users = <<>> /\ inflight = EmptyBag /\ nextId = 1
  /\ ENABLED HasPermissions <=> ~perm.answered

\* a Seller who is not the owner was refused
C3_Witness ==
  /\ perm.answered /\ ~perm.result
  /\ perm.requestUser.roles = RoleSeller /\ perm.entityId # perm.requestUser.id

\* C4: after a disable took effect on an id, with no enable or delete of
\* that id since, a further disable is answered AlreadyDisabled (a
\* conflict, not a silent success) and the record stays inactive.
C4_DisableTwice ==
  /\ \A i \in UserIds : lifecycle[i] = "disabled" => Inactive(i)
  /\ (Answered("disable") /\ lifecycle[last.userId] = "disabled") =>
       /\ last.result = AlreadyDisabled
       /\ Inactive(last.userId)

\* the second disable, by a caller who may disable, met the conflict
C4_Witness ==
  /\ Answered("disable") /\ lifecycle[last.userId] = "disabled"
  /\ last.result = AlreadyDisabled
  /\ hasPermissions(last.userId, last.requestUser)

\* C5: after an enable took effect on an id, with no disable or delete of
\* that id since, a further enable is answered AlreadyEnabled and the
\* record stays active; so is an enable of a freshly created record.
C5_EnableTwice ==
  /\ \A i \in UserIds : lifecycle[i] \in {"enabled", "created"} => Active(i)
  /\ (Answered("enable") /\ lifecycle[last.userId] \in {"enabled", "created"}) =>
       /\ last.result = AlreadyEnabled
       /\ Active(last.userId)

\* the second enable, by a caller who may enable, met the conflict
C5_Witness ==
  /\ Answered("enable") /\ lifecycle[last.userId] = "enabled"
  /\ last.result = AlreadyEnabled
  /\ hasPermissions(last.userId, last.requestUser)

\* C6: once a disable took effect, get by the owner is answered NotFound,
\* yet enable by a permitted caller passes its guard and its write makes
\* the record active, after which get by the owner returns the record.
C6_DisableGetEnableGet ==
  /\ (PlainGet /\ lifecycle[last.userId] = "disabled"
        /\ last.requestUser.id = last.userId) => last.result = NotFound
  /\ (Answered("enable") /\ lifecycle[last.userId] = "disabled"
        /\ hasPermissions(last.userId, last.requestUser)) =>
       /\ last.result = Ok
       /\ \E w \in BagToSet(inflight) : w.userId = last.userId /\ w.op = "enable"
  /\ (last.op = "enable" /\ last.phase = "write" /\ Exists(last.userId)) =>
       /\ Active(last.userId)
       /\ lifecycle[last.userId] = "enabled"
  /\ (PlainGet /\ lifecycle[last.userId] = "enabled"
        /\ last.requestUser.id = last.userId) =>
       /\ last.result = Ok
       /\ last.entity = <<users[last.userId]>>

\* the owner got the record back after an enable of the disabled record
C6_Witness ==
  /\ PlainGet /\ lifecycle[last.userId] = "enabled"
  /\ last.requestUser = [id |-> last.userId, roles |-> RoleUser]
  /\ last.result = Ok /\ last.entity = <<users[last.userId]>>

\* the row of id i changed its isActive flag in this step
FlagWritten(i) ==
  /\ i \in DOMAIN users /\ i \in DOMAIN users'
  /\ users'[i].isActive # users[i].isActive

\* this step is the write of an awaited request of kind op on id i
WriteOf(op, i) ==
  /\ last'.op = op /\ last'.phase = "write" /\ last'.userId = i
  /\ \E w \in BagToSet(inflight) :
       /\ w.op = op /\ w.userId = i
       /\ inflight' = inflight (-) SetToBag({w})

\* this step made a request of kind op on id i wait for its write
Awaits(op, i) ==
  /\ inflight' # inflight
  /\ \E p \in UpdatePayloads \cup {NoPayload} :
       inflight' = inflight (+) SetToBag({Write(op, i, p)})

\* what disable and enable answer, by the state the guard read
C7_Answers ==
  LET i == last.userId
      u == last.requestUser
  IN /\ Answered("disable") =>
          /\ ~Exists(i) => last.result = NotFound
          /\ Inactive(i) => last.result = AlreadyDisabled
          /\ last.result = Forbidden => (Active(i) /\ ~OwnerOrAdmin(i, u))
          /\ last.result = Ok <=> (Active(i) /\ OwnerOrAdmin(i, u))
     /\ Answered("enable") =>
          /\ ~Exists(i) => last.result = NotFound
          /\ Active(i) => last.result = AlreadyEnabled
          /\ last.result = Forbidden => (Inactive(i) /\ ~OwnerOrAdmin(i, u))
          /\ last.result = Ok <=> (Inactive(i) /\ OwnerOrAdmin(i, u))

\* the steps that write the flag or make a disable or enable wait
C7_Writes ==
  \A i \in UserIds :
    /\ FlagWritten(i) => (WriteOf("disable", i) \/ WriteOf("enable", i))
    /\ \A op \in {"disable", "enable"} :
         Awaits(op, i) =>
           /\ last'.op = op /\ last'.phase = "guard" /\ last'.userId = i
           /\ last'.result = Ok
           /\ users' = users
           /\ IF op = "disable" THEN Active(i) ELSE Inactive(i)
           /\ OwnerOrAdmin(i, last'.requestUser)

\* C7: disable and enable test existence and state before ownership: an
\* absent id gives NotFound, disable of an inactive record AlreadyDisabled
\* and enable of an active record AlreadyEnabled, whoever calls; Forbidden
\* is answered only for a record that exists in the state the transition
\* requires; the isActive flag is written only after all three tests passed.
C7_StateBeforeOwnership == [](C7_Answers) /\ [][C7_Writes]_vars

\* a caller neither owner nor Admin disabled an inactive record: the
\* state decided, AlreadyDisabled
C7_Witness ==
  /\ Answered("disable") /\ Inactive(last.userId)
  /\ last.result = AlreadyDisabled
  /\ ~hasPermissions(last.userId, last.requestUser)

\* what the owner-facing operations answer on an inactive record
C8_Answers ==
  (/\ \/ Answered("update") \/ Answered("getAddressesByUserId")
      \/ Answered("getProductsByUserId") \/ Answered("getOrdersByUserId")
   /\ Inactive(last.userId)) => last.result = NotFound

\* the steps that set the flag of an inactive record
C8_Revival ==
  \A i \in UserIds :
    (FlagWritten(i) /\ users'[i].isActive) => WriteOf("enable", i)

\* C8: an inactive record is out of reach of update, getAddressesByUserId,
\* getProductsByUserId and getOrdersByUserId, which answer NotFound to
\* every caller, and only the write of an enable sets isActive back to true.
C8_InactiveExcluded == [](C8_Answers) /\ [][C8_Revival]_vars

\* an Admin's update of an inactive record was answered NotFound
C8_Witness ==
  /\ Answered("update") /\ Inactive(last.userId)
  /\ last.result = NotFound
  /\ last.requestUser.roles = RoleAdmin

\* the row of id i was removed in this step
RowRemoved(i) == i \in DOMAIN users /\ i \notin DOMAIN users'

\* C9 as stated: delete by the owner or an Admin is let through for a
\* record that exists, Active or Inactive alike.
C9_DeleteFromAnyState ==
  (Answered("delete") /\ Exists(last.userId)
     /\ OwnerOrAdmin(last.userId, last.requestUser)) => last.result = Ok

\* what delete answers, by the state the guard read
C9_Answers ==
  LET i == last.userId
      u == last.requestUser
  IN /\ Answered("delete") =>
          /\ (Active(i) /\ OwnerOrAdmin(i, u)) =>
               /\ last.result = Ok
               /\ \E w \in BagToSet(inflight) : w.op = "delete" /\ w.userId = i
          /\ Inactive(i) => last.result = NotFound
          /\ last.result = Ok => (Active(i) /\ OwnerOrAdmin(i, u))
     /\ (last.op = "delete" /\ last.phase = "write") => ~Exists(i)

\* the steps that remove a row or make a delete wait
C9_Removal ==
  \A i \in UserIds :
    /\ RowRemoved(i) => WriteOf("delete", i)
    /\ Awaits("delete", i) => (users' = users /\ Active(i) /\ last'.result = Ok)

\* C9, amended: delete by the owner or an Admin is let through, and its
\* write removes the record, when the record is Active at the guard read;
\* for an Inactive record it is answered NotFound and the record remains;
\* a record is removed by nothing but the write of a delete.
C9_DeleteFromActive == [](C9_Answers) /\ [][C9_Removal]_vars

\* an Admin's delete of an inactive record was answered NotFound and the
\* record is still there
C9_Witness ==
  /\ Answered("delete") /\ Inactive(last.userId)
  /\ last.result = NotFound
  /\ last.requestUser.roles = RoleAdmin

\* a removed id has no row, and reads of it find nothing
C10_State ==
  /\ \A i \in UserIds : lifecycle[i] = "deleted" => ~Exists(i)
  /\ (last.phase \in {"done", "guard"} /\ last.op # "create"
        /\ last.userId \in UserIds /\ lifecycle[last.userId] = "deleted") =>
       last.result = NotFound

\* no step brings a removed id back
C10_Step ==
  \A i \in UserIds :
    /\ lifecycle[i] = "deleted" => (lifecycle'[i] = "deleted" /\ i \notin DOMAIN users')
    /\ RowRemoved(i) => lifecycle'[i] = "deleted"

\* C10: Deleted is terminal: once a delete has removed the record of an
\* id, no record with that id exists again, whatever calls follow or were
\* awaiting their write, and every call that reads after the delete is
\* answered NotFound.
C10_DeletedTerminal == [](C10_State) /\ [][C10_Step]_vars

\* the write of an enable whose guard had passed before the delete came
\* after it, and the record is still gone
C10_Witness ==
  /\ last.op = "enable" /\ last.phase = "write"
  /\ lifecycle[last.userId] = "deleted" /\ ~Exists(last.userId)

RelatedOps == {"getAddressesByUserId", "getProductsByUserId", "getOrdersByUserId"}

\* the callers a getRelated step may have been made for: the one it was
\* given, or any caller when the method takes none
CallersOf(step) ==
  IF step.requestUser = NoRequestUser THEN RequestUsers ELSE {step.requestUser}

\* the guard of get, applied by the getRelated methods that take the caller
C12_AddressesAndOrders ==
  (Answered("getAddressesByUserId") \/ Answered("getOrdersByUserId")) =>
    LET i == last.userId IN
      last.result = GetGuard(FindOne(users, i), last.requestUser)

\* C12: every getRelated operation (addresses, products, orders) applies
\* the guard sequence of get: for an active user, a caller who is neither
\* that user nor an Admin receives Forbidden and no related collection,
\* for each of the three kinds.
C12_RelatedGuard ==
  \A op \in RelatedOps :
    (Answered(op) /\ Active(last.userId)) =>
      \A u \in CallersOf(last) :
        ~OwnerOrAdmin(last.userId, u) => last.result = Forbidden

\* the answer of a request whose repository call failed and was not caught
InfrastructureError == "InfrastructureError"

\* C13: a failure of the persistence layer raised by a repository call,
\* the lookup of get with query options included, reaches the caller as
\* an infrastructure error: it is never turned into NotFound, Forbidden
\* or a successful result.
C13_FailurePropagates ==
  (Answered("get") /\ last.crudRequest = "reject") =>
    last.result = InfrastructureError

\* the plain passwords a create may submit
PlainPasswords == {p.password : p \in CreatePayloads \cup SeqCreatePayloads}

Flag(op) == op = "enable"

\* a lifecycle write always answers success, and the flag stored is the
\* one of the last write that took effect
C16_State ==
  /\ (last.phase = "write" /\ last.op \in {"disable", "enable"}) =>
       /\ last.result = Ok
       /\ Exists(last.userId) => users[last.userId].isActive = Flag(last.op)
  /\ \A i \in UserIds :
       (Exists(i) /\ lifecycle[i] \in {"disabled", "enabled"}) =>
         users[i].isActive = (lifecycle[i] = "enabled")

\* the guard read writes nothing and hands the write over exactly when it
\* passed; the write tests nothing: it stores its flag whatever the record
\* holds by then
C16_Steps ==
  \A op \in {"disable", "enable"} :
    /\ (last'.op = op /\ last'.phase = "guard") =>
         /\ users' = users
         /\ last'.result = Ok <=> Awaits(op, last'.userId)
    /\ \A w \in Writes :
         (WriteOf(op, w.userId) /\ Exists(w.userId)) =>
           users' = [users EXCEPT ![w.userId].isActive = Flag(op)]

\* C16: the guard read and the write of disable and enable are separate,
\* non-atomic steps: two concurrent disable calls on the same Active
\* record can both pass the guard and both return success (neither
\* receives AlreadyDisabled), and the isActive stored after all calls
\* have finished is the one written by the last write to complete.
C16_LastWriteWins == [](C16_State) /\ [][C16_Steps]_vars

\* the write of one disable has completed on user 1 while a second
\* disable, whose guard passed on the Active record, still awaits its own
C16_Witness ==
  /\ last.op = "disable" /\ last.phase = "write" /\ last.userId = 1
  /\ last.result = Ok /\ Inactive(1)
  /\ BagIn(Write("disable", 1, NoPayload), inflight)

\* the write of an update that changes the row of i, and the write of a
\* delete that removes it, find the row active
C19_Step ==
  \A i \in UserIds :
    /\ (WriteOf("update", i) /\ users' # users) => Active(i)
    /\ (WriteOf("delete", i) /\ RowRemoved(i)) => Active(i)

\* C19: in every interleaving of concurrent requests, the field write of
\* an update (and the removal of a delete) is applied only to a record
\* that is active at the moment of the write: an update that runs
\* concurrently with a disable of the same id never modifies the record
\* after it has become inactive.
C19_WriteOnActive == [][C19_Step]_vars

(* ------------------- claims on the shopping cart routes ---------------- *)

CartExists(c) == c \in DOMAIN carts
CartAnswered(op) == last.op = op /\ last.phase \in {"done", "guard"}
CartAwaited(op, c) == BagIn(Write(op, c, NoPayload), inflight)

\* the caller of the step is the owner of cart c and no Admin
ByOwner(c) ==
  /\ CartExists(c)
  /\ last.requestUser.id = carts[c].userId
  /\ last.requestUser.roles # RoleAdmin

\* C17: for a shopping cart owned by a non-admin user: disable(cartId) by
\* an Admin succeeds, the owner's get(cartId) after it yields NotFound,
\* enable(cartId) by an Admin then succeeds, and the owner's get(cartId)
\* after that returns the cart.
C17_CartDisableGetEnableGet ==
  LET c == last.userId IN
  /\ (CartAnswered("cart.disable") /\ last.requestUser.roles = RoleAdmin
        /\ CartExists(c) /\ carts[c].isActive) =>
       last.result = Ok /\ CartAwaited("cart.disable", c)
  /\ (last.op = "cart.disable" /\ last.phase = "write" /\ CartExists(c)) =>
       ~carts[c].isActive /\ cartLifecycle[c] = "disabled"
  /\ (CartAnswered("cart.get") /\ ByOwner(c) /\ cartLifecycle[c] = "disabled") =>
       last.result = NotFound
  /\ (CartAnswered("cart.enable") /\ last.requestUser.roles = RoleAdmin
        /\ CartExists(c) /\ cartLifecycle[c] = "disabled") =>
       last.result = Ok /\ CartAwaited("cart.enable", c)
  /\ (last.op = "cart.enable" /\ last.phase = "write" /\ CartExists(c)) =>
       carts[c].isActive /\ cartLifecycle[c] = "enabled"
  /\ (CartAnswered("cart.get") /\ ByOwner(c) /\ cartLifecycle[c] = "enabled") =>
       /\ last.result = Ok
       /\ last.entity = <<carts[c]>>

\* the owner, a plain user, got the cart back after an Admin's enable of
\* the disabled cart
C17_Witness ==
  /\ CartAnswered("cart.get") /\ ByOwner(last.userId)
  /\ last.requestUser.roles = RoleUser
  /\ cartLifecycle[last.userId] = "enabled"
  /\ last.result = Ok /\ last.entity = <<carts[last.userId]>>

(* ------------------ claims on the requests served one at a time ------- *)

\* the step is the write of op
WriteStep(op) == last'.op = op /\ last'.phase = "write"

\* the guard read of an update leaves the table alone; its write keeps the
\* ids of the table and, of every row, the id (which is the owner id of a
\* user) and the isActive flag, and changes no row but the one it names
C11_Step ==
  /\ (last'.op = "update" /\ last'.phase = "guard") => users' = users
  /\ WriteStep("update") =>
       /\ DOMAIN users' = DOMAIN users
       /\ \A i \in DOMAIN users :
            /\ users'[i].id = users[i].id
            /\ users'[i].isActive = users[i].isActive
            /\ i # last'.userId => users'[i] = users[i]

Created(id, payload) ==
  [id |-> id,
   isActive |-> TRUE,
   name |-> payload.name,
   password |-> encryptPassword(payload.password),
   roles |-> IF payload.roles \in RolesEnum THEN payload.roles ELSE RoleUser]

\* nothing has been written to the record of i since its creation
Untouched(i) == lifecycle[i] = "created" /\ i \notin patched

\* a get of the created user by that user returns the record of the payload
C15_Get ==
  (PlainGet /\ last.requestUser.id = last.userId /\ Untouched(last.userId)) =>
    /\ last.result = Ok
    /\ last.entity = <<Created(last.userId, createdWith[last.userId])>>

\* the id of a create is fresh: no row has it and none ever had
C15_FreshId ==
  last'.op = "create" =>
    /\ last'.userId \notin DOMAIN users
    /\ lifecycle[last'.userId] = "none"
    /\ last'.entity = <<Created(last'.userId, createdWith'[last'.userId])>>

\* C15: round trip: create(payload) followed by get(created.id, creator)
\* succeeds and returns a record whose fields equal those of the payload
\* except the generated ones: the id is fresh and unique, the password is
\* replaced by its hash, isActive is true, and the role is User when the
\* payload gives none.
C15_RoundTrip == [](C15_Get) /\ [][C15_FreshId]_vars

\* the second user, created without roles, reads itself back as a User
C15_Witness ==
  /\ PlainGet /\ last.userId = 2 /\ last.requestUser.id = 2
  /\ Untouched(2) /\ createdWith[2].roles = NoRoles
  /\ last.result = Ok /\ last.entity[1].roles = RoleUser
  /\ 1 \in DOMAIN users /\ users[1].roles = RoleSeller

ReadOps == {"get"} \cup RelatedOps
MutatingOps == {"update", "delete", "disable", "enable"}

\* every row but the one of id is as it was
OthersKept(id) ==
  \A i \in DOMAIN users \ {id} : i \in DOMAIN users' /\ users'[i] = users[i]

\* reads write nothing and hand over no write; the guard read of a
\* mutating method writes nothing and hands over one write when it passed
\* and none when it failed; a write is one of those handed over, taken
\* once, and touches the row of its id only; nothing else changes a row
C18_Step ==
  /\ last'.op \in ReadOps => (users' = users /\ inflight' = inflight)
  /\ \A op \in MutatingOps :
       /\ (last'.op = op /\ last'.phase = "guard") =>
            /\ users' = users
            /\ IF last'.result = Ok
                 THEN Awaits(op, last'.userId)
                 ELSE inflight' = inflight
       /\ WriteStep(op) =>
            /\ WriteOf(op, last'.userId)
            /\ BagCardinality(inflight') = BagCardinality(inflight) - 1
            /\ OthersKept(last'.userId)
  /\ users' # users => (last'.op = "create" \/ last'.phase = "write")

\* C18: every service operation that ends in NotFound, Forbidden,
\* AlreadyDisabled or AlreadyEnabled leaves every stored record unchanged;
\* get and the three getRelated operations never change a stored record,
\* whether they succeed or fail; each mutating operation performs at most
\* one write, and only after its guard read.
C18_Frame == [][C18_Step]_vars

\* a disable by the owner was refused on the disabled user 1 while user 2
\* has a row
C18_Witness ==
  /\ Answered("disable") /\ last.userId = 1 /\ last.requestUser.id = 1
  /\ last.result = AlreadyDisabled
  /\ Inactive(1) /\ Exists(2) /\ inflight = EmptyBag

====
